---- MODULE Spec2Model ----
(***************************************************************************)
(* vboxhelper: three parts of the library, each with its own               *)
(* specification over the variables below.                                 *)
(*                                                                         *)
(* Spec: reconstruction of the snapshot tree from the flat key/value map   *)
(* (src/src/snapshot.rs), and the read-only queries over the tree.         *)
(* get_from_map is a state machine: one action for the root detection, one *)
(* for each iteration of the work-list loop (with its child-probing loop), *)
(* one for the resolution of CurrentSnapshotUUID and the assembly of the   *)
(* tree, and one for a get_unique_by_name query on the returned tree.      *)
(*                                                                         *)
(* DecodeSpec: get_vm_info_map (src/src/lib.rs), which cuts the text that  *)
(* VBoxManage printed into lines (src/src/strutils.rs) and decodes each    *)
(* line into a key and a value of the flat map.                            *)
(*                                                                         *)
(* WaitSpec: wait_for_croak (src/src/lib.rs), which polls the state of a   *)
(* virtual machine until it is powered off or a timeout has passed.        *)
(***************************************************************************)
EXTENDS Integers, Sequences, FiniteSets, TLC

VARIABLES
  map,           \* the flat map handed to get_from_map (never written)
  snapmap,       \* HashMap<Uuid, Snapshot> under construction
  root_uuid,     \* Option<Uuid>
  current_uuid,  \* Option<Uuid>
  q,             \* VecDeque<String> of pending branch paths
  pc,            \* position in get_from_map
  result,        \* what get_from_map returned (or how it ended)
  snaps,         \* the Snapshots value inside Ok(Some(..))
  lookup,        \* the last get_unique_by_name call on `snaps`
  walked,        \* history: the branch paths taken from q so far, in order
  \* get_vm_info_map (src/src/lib.rs)
  stdout,        \* output.stdout: the bytes printed by VBoxManage
  lines,         \* the lines of stdout that the iterator has yet to give
  vmmap,         \* the HashMap<String, String> under construction
  dpc,           \* position in get_vm_info_map
  dresult,       \* what get_vm_info_map returned (or how it ended)
  seen,          \* history: each line given by the iterator and its captures
  \* wait_for_croak (src/src/lib.rs)
  timeout,       \* Option<(Duration, TimeoutAction)>
  elapsed,       \* seconds since `start`
  wpc,           \* position in wait_for_croak
  polls,         \* history: what each is_vm_state call returned, in order
  kills,         \* history: number of controlvm::kill calls issued
  wresult        \* what wait_for_croak returned (or how it ended)

\* The state of get_from_map and of the queries on its tree
snapvars ==
  <<map, snapmap, root_uuid, current_uuid, q, pc, result, snaps, lookup, walked>>

\* The state of get_vm_info_map
decvars == <<stdout, lines, vmmap, dpc, dresult, seen>>

\* The state of wait_for_croak
waitvars == <<timeout, elapsed, wpc, polls, kills, wresult>>

vars == <<snapvars, decvars, waitvars>>

(***************************************************************************)
(* Bounds of the input space.                                              *)
(***************************************************************************)
\* Most branch paths of a flat map that carry a SnapshotUUID key reachable
\* from the root by contiguous numbering; also the largest child index and
\* the largest sum of indices of any branch path used in a key.
MaxNodes == 3

\* Snapshot names found in the flat maps.
Names == {"A", "B"}

\* A name no flat map holds (used by queries only).
OtherName == "C"

\* The values of a key that the walk never looks up, and the name of the
\* snapshots in the flat maps that hold one.
StrayName == "B"
StrayUuid == "bb"
ListedName == "A"

\* Texts found as values of the SnapshotUUID keys.  "aa", "bb", "cc" stand for
\* three well-formed identifiers in lower case, "AA" for the upper-case text
\* of the first, "zz" for a text that is no identifier.
UuidTexts == {"aa", "bb", "cc", "zz"}
WellFormed == {"aa", "bb", "cc"}

\* Texts found as value of CurrentSnapshotUUID: the first identifier in upper
\* case, the second identifier, and a text that is no identifier.
CurrentTexts == {"AA", "bb", "zz"}

(***************************************************************************)
(* uuid::Uuid::parse_str: case-insensitive; fails on text that is no       *)
(* identifier.  The parsed value is written as its lower-case text.        *)
(***************************************************************************)
HexLower == ("aa" :> "aa") @@ ("AA" :> "aa") @@ ("bb" :> "bb") @@ ("cc" :> "cc")

ParseUuid(s) ==
  IF s \in DOMAIN HexLower
  THEN [ok |-> TRUE, u |-> HexLower[s]]
  ELSE [ok |-> FALSE, u |-> ""]

\* Option<Uuid>::None
NoUuid == "None"

(***************************************************************************)
(* Keys of the flat map.                                                   *)
(***************************************************************************)
\* format!("{}-{}", curbranch, i)
Branch(curbranch, i) == curbranch \o "-" \o ToString(i)

\* format!("SnapshotUUID{}", branch)
UuidKey(branch) == "SnapshotUUID" \o branch

\* format!("SnapshotName{}", branch)
NameKey(branch) == "SnapshotName" \o branch

CurrentKey == "CurrentSnapshotUUID"

\* Mutant of Snapshot: the node is named by its identifier.
Snapshot_NamedByUuid(nm, u) ==
  [name |-> u, uuid |-> u, desc |-> <<>>, children |-> <<>>]

\* struct Snapshot
Snapshot(nm, u) == [name |-> nm, uuid |-> u, desc |-> <<>>, children |-> <<>>]

\* HashMap::new()
EmptyMap == [k \in {} |-> ""]

\* Mutant of Insert: an occupied entry keeps its old value (entry().or_insert).
Insert_KeepsOld(m, k, v) == m @@ (k :> v)

\* HashMap::insert: the new value replaces an old one under the same key
Insert(m, k, v) == (k :> v) @@ m

(***************************************************************************)
(* The flat maps get_from_map is run on.                                   *)
(***************************************************************************)
RECURSIVE Weight(_)
Weight(p) == IF p = <<>> THEN 0 ELSE Head(p) + Weight(Tail(p))

\* Branch paths as sequences of child indices: <<1, 2>> is "-1-2".
Paths ==
  {p \in UNION {[1..n -> 1..MaxNodes] : n \in 0..MaxNodes} : Weight(p) <= MaxNodes}

Parent(p) == SubSeq(p, 1, Len(p) - 1)

RECURSIVE PathStr(_)
PathStr(p) == IF p = <<>> THEN "" ELSE Branch(PathStr(Parent(p)), p[Len(p)])

\* The text of each branch path
PathStrs == [p \in Paths |-> PathStr(p)]
StrOf(p) == PathStrs[p]

\* The sets of branch paths that a walk from the root reaches: the root, and
\* with a path its parent and its elder sibling.
Shapes ==
  {T \in SUBSET Paths :
     /\ <<>> \in T
     /\ Cardinality(T) <= MaxNodes
     /\ \A p \in T : p # <<>> =>
          /\ Parent(p) \in T
          /\ p[Len(p)] > 1 => Append(Parent(p), p[Len(p)] - 1) \in T}

\* The UUID keys a walk over the shape T looks up: those of T and the first
\* missing child of each path of T.
ProbedPaths(T) ==
  T \cup {p \in Paths : p # <<>> /\ Parent(p) \in T
                        /\ (p[Len(p)] > 1 => Append(Parent(p), p[Len(p)] - 1) \in T)}

\* The keys of the flat maps that start with SnapshotName, and those that
\* start with SnapshotUUID
AllNameKeys == {NameKey(StrOf(p)) : p \in Paths}
AllUuidKeys == {UuidKey(StrOf(p)) : p \in Paths}

\* The branch path of each of these keys
PathOfNameKey == [k \in AllNameKeys |-> CHOOSE p \in Paths : NameKey(StrOf(p)) = k]
PathOfUuidKey == [k \in AllUuidKeys |-> CHOOSE p \in Paths : UuidKey(StrOf(p)) = k]

\* One more key, which the walk over T never looks up: the name of a path
\* outside T, or the UUID of a path the walk does not probe.
Strays(T) ==
  {NameKey(StrOf(p)) :> StrayName : p \in Paths \ T}
    \cup {UuidKey(StrOf(p)) :> StrayUuid : p \in Paths \ ProbedPaths(T)}

\* The flat map with the UUID key of every path of T (texts uu), the name key
\* of the paths of nb (names nm), CurrentSnapshotUUID unless cur is "", and
\* the keys of stray.
FlatMap(T, uu, nb, nm, cur, stray) ==
  LET ukeys == {UuidKey(StrOf(p)) : p \in T}
      nkeys == {NameKey(StrOf(p)) : p \in nb}
      ckeys == IF cur = "" THEN {} ELSE {CurrentKey}
  IN  [k \in ukeys \cup nkeys \cup ckeys \cup DOMAIN stray |->
         IF k \in ukeys THEN uu[PathOfUuidKey[k]]
         ELSE IF k \in nkeys THEN nm[PathOfNameKey[k]]
         ELSE IF k \in ckeys THEN cur
         ELSE stray[k]]

(***************************************************************************)
(* State after construction: get_from_map is about to run on a flat map.   *)
(***************************************************************************)
Pending == [tag |-> "Pending", err |-> ""]
NoSnaps == [map |-> EmptyMap, root |-> NoUuid, current |-> NoUuid]
NoLookup == [name |-> "", tag |-> "Idle", err |-> "", uuid |-> NoUuid]

\* Every flat map over a shape whose keys are all looked up by the walk: each
\* UUID key with any text, each name key absent or with any name,
\* CurrentSnapshotUUID absent or with any text.
WalkedMaps ==
  \E T \in Shapes :
    \E uu \in [T -> UuidTexts], nb \in SUBSET T, cur \in CurrentTexts \cup {""} :
      \E nm \in [nb -> Names] :
        map = FlatMap(T, uu, nb, nm, cur, EmptyMap)

\* The listings of a shape with one key more, which the walk never looks up:
\* every identifier well-formed, every snapshot named, the root current.
StrayMaps ==
  \E T \in Shapes :
    \E uu \in [T -> WellFormed], stray \in Strays(T) :
      map = FlatMap(T, uu, T, [p \in T |-> ListedName], uu[<<>>], stray)

\* The flat map m without the keys ks
Without(m, ks) == [k \in DOMAIN m \ ks |-> m[k]]

\* The flat maps of a shape whose root lacks its name, its UUID or both, every
\* other snapshot named.
RootlessMaps ==
  \E T \in Shapes :
    \E uu \in [T -> UuidTexts], cur \in CurrentTexts \cup {""},
       ks \in (SUBSET {NameKey(""), UuidKey("")}) \ {{}} :
      map = Without(FlatMap(T, uu, T, [p \in T |-> ListedName], cur, EmptyMap), ks)

\* get_vm_info_map and wait_for_croak are not running.
NoTimeout == [some |-> FALSE, max_dur |-> 0, action |-> ""]
DecoderIdle ==
  /\ stdout = <<>>
  /\ lines = <<>>
  /\ vmmap = EmptyMap
  /\ dpc = "idle"
  /\ dresult = Pending
  /\ seen = <<>>
WaiterIdle ==
  /\ timeout = NoTimeout
  /\ elapsed = 0
  /\ wpc = "idle"
  /\ polls = <<>>
  /\ kills = 0
  /\ wresult = Pending

Init ==
  /\ WalkedMaps \/ StrayMaps \/ RootlessMaps
  /\ snapmap = EmptyMap
  /\ root_uuid = NoUuid
  /\ current_uuid = NoUuid
  /\ q = <<>>
  /\ pc = "root"
  /\ result = Pending
  /\ snaps = NoSnaps
  /\ lookup = NoLookup
  /\ walked = <<>>
  /\ DecoderIdle
  /\ WaiterIdle

(***************************************************************************)
(* get_from_map                                                            *)
(***************************************************************************)
\* enum Error, by variant name
Error ==
  {"IO", "BadFormat", "FailedToExecute", "CommandFailed", "MissingData",
   "Ambiguous", "Missing", "Timeout"}

Return(r) ==
  /\ result' = r
  /\ pc' = "done"

\* Mutant of OkNone: a flat map without a root is reported as an error.
OkNone_AsError == [tag |-> "Err", err |-> "MissingData"]

OkNone == [tag |-> "OkNone", err |-> ""]
OkSome == [tag |-> "OkSome", err |-> ""]
Err(e) == [tag |-> "Err", err |-> e]
\* Option::unwrap on None
Panic == [tag |-> "Panic", err |-> ""]
\* panic!(msg)
PanicWith(msg) == [tag |-> "Panic", err |-> msg]

\* Mutant of GetRoot: the parsed root identifier is not kept.
GetRoot_RootUnset ==
  /\ pc = "root"
  /\ IF NameKey("") \in DOMAIN map /\ UuidKey("") \in DOMAIN map
     THEN LET p == ParseUuid(map[UuidKey("")])
          IN  /\ q' = Append(q, "")
              /\ IF p.ok
                 THEN /\ pc' = "loop"
                      /\ UNCHANGED <<result, root_uuid>>
                 ELSE /\ Return(Err("BadFormat"))
                      /\ UNCHANGED root_uuid
     ELSE /\ Return(OkNone)
          /\ UNCHANGED <<q, root_uuid>>
  /\ UNCHANGED <<map, snapmap, current_uuid, snaps, lookup, walked>>
  /\ UNCHANGED <<decvars, waitvars>>

\* "Get root snapshot": both unsuffixed keys present, or no tree.
GetRoot ==
  /\ pc = "root"
  /\ IF NameKey("") \in DOMAIN map /\ UuidKey("") \in DOMAIN map
     THEN LET p == ParseUuid(map[UuidKey("")])
          IN  /\ q' = Append(q, "")
              /\ IF p.ok
                 THEN /\ root_uuid' = p.u
                      /\ pc' = "loop"
                      /\ UNCHANGED result
                 ELSE /\ Return(Err("BadFormat"))
                      /\ UNCHANGED root_uuid
     ELSE /\ Return(OkNone)
          /\ UNCHANGED <<q, root_uuid>>
  /\ UNCHANGED <<map, snapmap, current_uuid, snaps, lookup, walked>>
  /\ UNCHANGED <<decvars, waitvars>>

\* Mutant of ProbeChildren: a child found is added to its parent but its
\* branch is not pushed on the queue.
RECURSIVE ProbeChildren_NoPush(_, _, _, _)
ProbeChildren_NoPush(m, curbranch, i, acc) ==
  LET branch == Branch(curbranch, i)
      key == UuidKey(branch)
  IN  IF key \in DOMAIN m
      THEN LET p == ParseUuid(m[key])
           IN  IF p.ok
               THEN ProbeChildren_NoPush(m, curbranch, i + 1,
                      [acc EXCEPT !.children = Append(@, p.u)])
               ELSE [acc EXCEPT !.bad = TRUE]
      ELSE acc

\* Mutant of ProbeChildren: a missing index is skipped when the next one is
\* present (existence-gated enumeration).
RECURSIVE ProbeChildren_SkipsGap(_, _, _, _)
ProbeChildren_SkipsGap(m, curbranch, i, acc) ==
  LET branch == Branch(curbranch, i)
      key == UuidKey(branch)
  IN  IF key \in DOMAIN m
      THEN LET p == ParseUuid(m[key])
           IN  IF p.ok
               THEN ProbeChildren_SkipsGap(m, curbranch, i + 1,
                      [acc EXCEPT !.children = Append(@, p.u),
                                  !.pushed = Append(@, branch)])
               ELSE [acc EXCEPT !.bad = TRUE]
      ELSE IF UuidKey(Branch(curbranch, i + 1)) \in DOMAIN m
           THEN ProbeChildren_SkipsGap(m, curbranch, i + 1, acc)
           ELSE acc

\* Mutant of ProbeChildren: each child found is put at the front of the
\* parent's children list.
RECURSIVE ProbeChildren_Reversed(_, _, _, _)
ProbeChildren_Reversed(m, curbranch, i, acc) ==
  LET branch == Branch(curbranch, i)
      key == UuidKey(branch)
  IN  IF key \in DOMAIN m
      THEN LET p == ParseUuid(m[key])
           IN  IF p.ok
               THEN ProbeChildren_Reversed(m, curbranch, i + 1,
                      [acc EXCEPT !.children = <<p.u>> \o @,
                                  !.pushed = Append(@, branch)])
               ELSE [acc EXCEPT !.bad = TRUE]
      ELSE acc

\* The child-probing loop `for i in 1..usize::MAX` of one work-list
\* iteration, from index i on: the children pushed to the node, the branches
\* pushed to the queue, and whether a child's text failed to parse.
RECURSIVE ProbeChildren(_, _, _, _)
ProbeChildren(m, curbranch, i, acc) ==
  LET branch == Branch(curbranch, i)
      key == UuidKey(branch)
  IN  IF key \in DOMAIN m
      THEN LET p == ParseUuid(m[key])
           IN  IF p.ok
               THEN ProbeChildren(m, curbranch, i + 1,
                      [acc EXCEPT !.children = Append(@, p.u),
                                  !.pushed = Append(@, branch)])
               ELSE [acc EXCEPT !.bad = TRUE]
      ELSE acc

\* VecDeque::pop_front, the breadth-first order
PopFront(d) == [item |-> d[1], rest |-> SubSeq(d, 2, Len(d))]

\* Mutant of PopBack: the last item is taken and the others are dropped.
PopBack_DropsRest(d) == [item |-> d[Len(d)], rest |-> <<>>]

\* Mutant of PopBack: the last item is read but stays in the queue.
PopBack_Peek(d) == [item |-> d[Len(d)], rest |-> d]

\* VecDeque::pop_back
PopBack(d) == [item |-> d[Len(d)], rest |-> SubSeq(d, 1, Len(d) - 1)]

\* The body of `while !q.is_empty()` for the branch path curbranch taken from
\* the queue, sm being the tree map so far: the tree map after it, the
\* branches it pushes on the queue, and how it ends the call (Pending when
\* the loop goes on).
Iteration(m, sm, curbranch) ==
  LET uuid_key == UuidKey(curbranch)
      name_key == NameKey(curbranch)
  IN  IF name_key \notin DOMAIN m \/ uuid_key \notin DOMAIN m
      THEN [snapmap |-> sm, pushed |-> <<>>, end |-> Panic]
      ELSE LET nm == m[name_key]
               uid == m[uuid_key]
               p == ParseUuid(uid)
           IN  IF ~p.ok
               THEN [snapmap |-> sm, pushed |-> <<>>, end |-> Err("BadFormat")]
               ELSE LET u == p.u
                        inserted == Insert(sm, u, Snapshot(nm, u))
                        pr == ProbeChildren(m, curbranch, 1,
                                [children |-> <<>>, pushed |-> <<>>, bad |-> FALSE])
                    IN  [snapmap |-> [inserted EXCEPT ![u].children = @ \o pr.children],
                         pushed |-> pr.pushed,
                         end |-> IF pr.bad THEN Err("BadFormat") ELSE Pending]

\* One iteration of `while !q.is_empty()`.
LoopIter ==
  /\ pc = "loop"
  /\ q # <<>>
  /\ LET popped == PopBack(q)
         it == Iteration(map, snapmap, popped.item)
     IN  /\ snapmap' = it.snapmap
         /\ q' = popped.rest \o it.pushed
         /\ walked' = Append(walked, popped.item)
         /\ IF it.end = Pending
            THEN UNCHANGED <<pc, result>>
            ELSE Return(it.end)
  /\ UNCHANGED <<map, root_uuid, current_uuid, snaps, lookup>>
  /\ UNCHANGED <<decvars, waitvars>>

\* After the loop: resolve CurrentSnapshotUUID and assemble the tree.
Assemble ==
  /\ pc = "loop"
  /\ q = <<>>
  /\ IF CurrentKey \in DOMAIN map
     THEN LET p == ParseUuid(map[CurrentKey])
          IN  IF p.ok
              THEN /\ current_uuid' = p.u
                   /\ IF root_uuid = NoUuid
                      THEN /\ Return(PanicWith("No root UUID"))
                           /\ UNCHANGED snaps
                      ELSE IF current_uuid' = NoUuid
                      THEN /\ Return(PanicWith("No current UUID"))
                           /\ UNCHANGED snaps
                      ELSE /\ snaps' = [map |-> snapmap, root |-> root_uuid,
                                        current |-> current_uuid']
                           /\ Return(OkSome)
              ELSE /\ Return(Err("BadFormat"))
                   /\ UNCHANGED <<current_uuid, snaps>>
     ELSE /\ Return(Err("MissingData"))
          /\ UNCHANGED <<current_uuid, snaps>>
  /\ UNCHANGED <<map, snapmap, root_uuid, q, lookup, walked>>
  /\ UNCHANGED <<decvars, waitvars>>

\* The work-list loop run to its end from the queue d and the tree map sm,
\* each branch path being taken from the front of the queue.
RECURSIVE WalkFront(_, _, _)
WalkFront(m, d, sm) ==
  IF d = <<>>
  THEN [snapmap |-> sm, end |-> Pending]
  ELSE LET popped == PopFront(d)
           it == Iteration(m, sm, popped.item)
       IN  IF it.end = Pending
           THEN WalkFront(m, popped.rest \o it.pushed, it.snapmap)
           ELSE [snapmap |-> it.snapmap, end |-> it.end]

\* get_from_map with q.pop_front() in place of q.pop_back(): what it
\* returns on the flat map m, and the tree inside Ok(Some(..)).
get_from_map_front(m) ==
  IF NameKey("") \in DOMAIN m /\ UuidKey("") \in DOMAIN m
  THEN LET r == ParseUuid(m[UuidKey("")])
           w == WalkFront(m, <<"">>, EmptyMap)
       IN  IF ~r.ok THEN [result |-> Err("BadFormat"), snaps |-> NoSnaps]
           ELSE IF w.end # Pending THEN [result |-> w.end, snaps |-> NoSnaps]
           ELSE IF CurrentKey \notin DOMAIN m
                THEN [result |-> Err("MissingData"), snaps |-> NoSnaps]
           ELSE LET c == ParseUuid(m[CurrentKey])
                IN  IF ~c.ok THEN [result |-> Err("BadFormat"), snaps |-> NoSnaps]
                    ELSE [result |-> OkSome,
                          snaps |-> [map |-> w.snapmap, root |-> r.u, current |-> c.u]]
  ELSE [result |-> OkNone, snaps |-> NoSnaps]

(***************************************************************************)
(* impl Snapshots                                                          *)
(***************************************************************************)
None == [some |-> FALSE, uuid |-> NoUuid]
Some(u) == [some |-> TRUE, uuid |-> u]

\* HashMap::get, as the key of the entry found
Get(m, u) == IF u \in DOMAIN m THEN Some(u) ELSE None

get_root(s) == Get(s.map, s.root)
get_current(s) == Get(s.map, s.current)
get_by_uuid(s, u) == Get(s.map, u)

\* The snapshots get_by_name collects, by identifier (the Vec holds them in
\* the HashMap's iteration order).
get_by_name(s, name) == {u \in DOMAIN s.map : s.map[u].name = name}

get_unique_by_name(s, name) ==
  LET snaplist == get_by_name(s, name)
  IN  IF Cardinality(snaplist) = 0
      THEN [name |-> name, tag |-> "Err", err |-> "MissingData", uuid |-> NoUuid]
      ELSE IF Cardinality(snaplist) = 1
           THEN [name |-> name, tag |-> "Ok", err |-> "",
                 uuid |-> CHOOSE u \in snaplist : TRUE]
           ELSE [name |-> name, tag |-> "Err", err |-> "Ambiguous", uuid |-> NoUuid]

\* A caller queries the returned tree by name.
GetUniqueByName ==
  /\ pc = "done"
  /\ result.tag = "OkSome"
  /\ \E name \in Names \cup {OtherName} :
       lookup' = get_unique_by_name(snaps, name)
  /\ UNCHANGED <<map, snapmap, root_uuid, current_uuid, q, pc, result, snaps, walked>>
  /\ UNCHANGED <<decvars, waitvars>>

Next == GetRoot \/ LoopIter \/ Assemble \/ GetUniqueByName

Spec == Init /\ [][Next]_vars

(***************************************************************************)
(* get_vm_info_map (src/src/lib.rs) and buf_to_strlines                    *)
(* (src/src/strutils.rs): the text printed by VBoxManage is cut into lines *)
(* and each line is decoded into a key and a value of the flat map.  A     *)
(* text is a sequence of one-character strings.                            *)
(***************************************************************************)
\* Longest single line, and most lines of a text with several lines.
MaxLineLen == 6
MaxLines == 3

Quote == "\""
Eq == "="
Space == " "
LF == "\n"
\* The byte 0xFF, which no UTF-8 text holds
BadByte == "0xFF"

\* The characters of the single lines
LineChars == {"a", Eq, Quote, Space}

\* The lines of the texts with several lines: a=b, a="a", "b"="b", a with no
\* '=', and the empty line.
SampleLines ==
  { <<"a", Eq, "b">>,
    <<"a", Eq, Quote, "a", Quote>>,
    <<Quote, "b", Quote, Eq, Quote, "b", Quote>>,
    <<"a">>,
    <<>> }

\* The sequences over S of length at most n
SeqsUpTo(S, n) == UNION {[1..k -> S] : k \in 0..n}

\* The lines ls with a line feed between each two
RECURSIVE JoinLines(_)
JoinLines(ls) ==
  IF ls = <<>> THEN <<>>
  ELSE IF Len(ls) = 1 THEN ls[1]
  ELSE ls[1] \o <<LF>> \o JoinLines(Tail(ls))

\* The text t with the byte b put in at position i
PutIn(t, i, b) == SubSeq(t, 1, i - 1) \o <<b>> \o SubSeq(t, i, Len(t))

\* std::str::from_utf8(..).is_ok()
from_utf8_ok(b) == \A i \in DOMAIN b : b[i] # BadByte

\* str::split("\n"), from position i on, cur being the piece begun
RECURSIVE SplitFrom(_, _, _)
SplitFrom(sbuf, i, cur) ==
  IF i > Len(sbuf) THEN <<cur>>
  ELSE IF sbuf[i] = LF THEN <<cur>> \o SplitFrom(sbuf, i + 1, <<>>)
  ELSE SplitFrom(sbuf, i + 1, Append(cur, sbuf[i]))

\* enum EmptyLine
EmptyLine == {"Keep", "Ignore"}

\* buf_to_strlines, for a buffer that is UTF-8
buf_to_strlines(b, el) ==
  LET pieces == SplitFrom(b, 1, <<>>)
      keep(line) == ~(Len(line) = 0 /\ el = "Ignore")
  IN  SelectSeq(pieces, keep)

\* str::trim_end
RECURSIVE trim_end(_)
trim_end(line) ==
  IF line # <<>> /\ line[Len(line)] \in {Space, LF}
  THEN trim_end(SubSeq(line, 1, Len(line) - 1))
  ELSE line

\* The character class [^"=]
NotQuoteEq(t) == \A i \in DOMAIN t : t[i] \notin {Quote, Eq}

\* Regex::captures
NoCaptures == [matched |-> FALSE, key |-> <<>>, val |-> <<>>]

\* Mutant of Captures: the value group runs to the end of the line.
Captures_KeepsSuffix(pre, mid, suf, line) ==
  LET found ==
        {i \in (Len(pre) + 2)..(Len(line) - Len(mid) - Len(suf) + 1) :
           /\ SubSeq(line, 1, Len(pre)) = pre
           /\ NotQuoteEq(SubSeq(line, Len(pre) + 1, i - 1))
           /\ SubSeq(line, i, i + Len(mid) - 1) = mid
           /\ NotQuoteEq(SubSeq(line, i + Len(mid), Len(line) - Len(suf)))
           /\ SubSeq(line, Len(line) - Len(suf) + 1, Len(line)) = suf}
  IN  IF found = {} THEN NoCaptures
      ELSE LET i == CHOOSE i \in found : TRUE
           IN  [matched |-> TRUE,
                key |-> SubSeq(line, Len(pre) + 1, i - 1),
                val |-> SubSeq(line, i + Len(mid), Len(line))]

\* The captures of the pattern ^pre(?P<key>[^"=]+)mid(?P<val>[^"=]*)suf$ on
\* the line, mid starting at position i of the line.  mid holds the only '='
\* of a line that matches, so there is at most one such i.
Captures(pre, mid, suf, line) ==
  LET found ==
        {i \in (Len(pre) + 2)..(Len(line) - Len(mid) - Len(suf) + 1) :
           /\ SubSeq(line, 1, Len(pre)) = pre
           /\ NotQuoteEq(SubSeq(line, Len(pre) + 1, i - 1))
           /\ SubSeq(line, i, i + Len(mid) - 1) = mid
           /\ NotQuoteEq(SubSeq(line, i + Len(mid), Len(line) - Len(suf)))
           /\ SubSeq(line, Len(line) - Len(suf) + 1, Len(line)) = suf}
  IN  IF found = {} THEN NoCaptures
      ELSE LET i == CHOOSE i \in found : TRUE
           IN  [matched |-> TRUE,
                key |-> SubSeq(line, Len(pre) + 1, i - 1),
                val |-> SubSeq(line, i + Len(mid), Len(line) - Len(suf))]

\* ^(?P<key>[^"=]+)="(?P<val>[^"=]*)"$
re1(line) == Captures(<<>>, <<Eq, Quote>>, <<Quote>>, line)
\* ^"(?P<key>[^"=]+)"="(?P<val>[^"=]*)"$
re2(line) == Captures(<<Quote>>, <<Quote, Eq, Quote>>, <<Quote>>, line)
\* ^(?P<key>[^"=]+)=(?P<val>[^"=]*)$
re3(line) == Captures(<<>>, <<Eq>>, <<>>, line)

\* `let cap = if let Some(cap) = re1.captures(&line) ... else None`
Decode(line) ==
  IF re1(line).matched THEN re1(line)
  ELSE IF re2(line).matched THEN re2(line)
  ELSE IF re3(line).matched THEN re3(line)
  ELSE NoCaptures

\* get_from_map is not running.
SnapIdle ==
  /\ map = EmptyMap
  /\ snapmap = EmptyMap
  /\ root_uuid = NoUuid
  /\ current_uuid = NoUuid
  /\ q = <<>>
  /\ pc = "idle"
  /\ result = Pending
  /\ snaps = NoSnaps
  /\ lookup = NoLookup
  /\ walked = <<>>

\* What VBoxManage printed: one line of any characters, or some of the
\* sample lines with line feeds between them, or such a text with a byte
\* that is not UTF-8 somewhere in it.
OneLineTexts == \E t \in SeqsUpTo(LineChars, MaxLineLen) : stdout = t
ManyLineTexts == \E ls \in SeqsUpTo(SampleLines, MaxLines) : stdout = JoinLines(ls)
BadTexts ==
  \E ls \in SeqsUpTo(SampleLines, MaxLines - 1) :
    \E i \in 1..(Len(JoinLines(ls)) + 1) :
      stdout = PutIn(JoinLines(ls), i, BadByte)

DecodeInit ==
  /\ OneLineTexts \/ ManyLineTexts \/ BadTexts
  /\ lines = <<>>
  /\ vmmap = EmptyMap
  /\ dpc = "start"
  /\ dresult = Pending
  /\ seen = <<>>
  /\ SnapIdle
  /\ WaiterIdle

\* `let lines = strutils::buf_to_strlines(&output.stdout, EmptyLine::Ignore)`:
\* from_utf8(..).expect(..) aborts on a buffer that is not UTF-8.
BufToStrlines ==
  /\ dpc = "start"
  /\ IF from_utf8_ok(stdout)
     THEN /\ lines' = buf_to_strlines(stdout, "Ignore")
          /\ dpc' = "lines"
          /\ UNCHANGED dresult
     ELSE /\ dresult' = PanicWith("Buffer not UTF-8")
          /\ dpc' = "done"
          /\ UNCHANGED lines
  /\ UNCHANGED <<stdout, vmmap, seen>>
  /\ UNCHANGED <<snapvars, waitvars>>

\* Mutant of DecodeLine: a line without captures ends the loop.
DecodeLine_StopsAtIgnored ==
  /\ dpc = "lines"
  /\ lines # <<>>
  /\ LET line == trim_end(Head(lines))
         cap == Decode(line)
     IN  /\ vmmap' = IF cap.matched THEN Insert(vmmap, cap.key, cap.val) ELSE vmmap
         /\ seen' = Append(seen, [raw |-> Head(lines), cap |-> cap])
         /\ lines' = IF cap.matched THEN Tail(lines) ELSE <<>>
  /\ UNCHANGED <<stdout, dpc, dresult>>
  /\ UNCHANGED <<snapvars, waitvars>>

\* One iteration of `while let Some(line) = lines.next()`.
DecodeLine ==
  /\ dpc = "lines"
  /\ lines # <<>>
  /\ LET line == trim_end(Head(lines))
         cap == Decode(line)
     IN  /\ vmmap' = IF cap.matched THEN Insert(vmmap, cap.key, cap.val) ELSE vmmap
         /\ seen' = Append(seen, [raw |-> Head(lines), cap |-> cap])
         /\ lines' = Tail(lines)
  /\ UNCHANGED <<stdout, dpc, dresult>>
  /\ UNCHANGED <<snapvars, waitvars>>

\* Ok(map)
OkMap == [tag |-> "Ok", err |-> ""]

ReturnMap ==
  /\ dpc = "lines"
  /\ lines = <<>>
  /\ dresult' = OkMap
  /\ dpc' = "done"
  /\ UNCHANGED <<stdout, lines, vmmap, seen>>
  /\ UNCHANGED <<snapvars, waitvars>>

DecodeNext == BufToStrlines \/ DecodeLine \/ ReturnMap

DecodeSpec == DecodeInit /\ [][DecodeNext]_vars

(***************************************************************************)
(* wait_for_croak (src/src/lib.rs): poll the state of the virtual machine  *)
(* every eleven seconds until it is powered off or the timeout has passed. *)
(***************************************************************************)
\* Most polls of one call.
MaxPolls == 3

\* Duration::from_secs(11)
ElevenSecs == 11

\* enum VmState
VmState == {"Unknown", "PowerOff", "Starting", "Running", "Paused", "Stopping"}

\* enum TimeoutAction
TimeoutAction == {"Error", "Kill"}

\* The durations given as timeout, in seconds, and the seconds one poll takes.
Durations == {0, ElevenSecs, ElevenSecs + 1, 2 * ElevenSecs}
PollSecs == {0, 1}

\* The errors get_vm_info returns to is_vm_state, and those of
\* controlvm::kill
PollErrors == {"BadFormat", "MissingData"}
KillErrors == {"FailedToExecute", "CommandFailed"}

\* Some((max_dur, action))
SomeTimeout(d, a) == [some |-> TRUE, max_dur |-> d, action |-> a]

\* Ok(()), and Ok(state == VmState::PowerOff) with the state that was read
OkUnit == [tag |-> "Ok", err |-> ""]
Polled(st) == [tag |-> "Ok", state |-> st]
PollFailed(r) == [tag |-> r.tag, state |-> r.err]

WaitInit ==
  /\ timeout \in {NoTimeout} \cup
       {SomeTimeout(d, a) : d \in Durations, a \in TimeoutAction}
  /\ elapsed = 0
  /\ wpc = "poll"
  /\ polls = <<>>
  /\ kills = 0
  /\ wresult = Pending
  /\ SnapIdle
  /\ DecoderIdle

\* `let poweroff = is_vm_state(id, VmState::PowerOff)?; if poweroff { break; }`
\* The poll takes some time; it gives the state of the machine, or an error
\* of get_vm_info, or aborts where get_vm_info does.
Poll ==
  /\ wpc = "poll"
  /\ Len(polls) < MaxPolls
  /\ \E secs \in PollSecs : elapsed' = elapsed + secs
  /\ \/ \E st \in VmState :
          /\ polls' = Append(polls, Polled(st))
          /\ IF st = "PowerOff"
             THEN wresult' = OkUnit /\ wpc' = "done"
             ELSE wpc' = "check" /\ UNCHANGED wresult
     \/ \E r \in {Err(e) : e \in PollErrors} \cup {Panic} :
          /\ polls' = Append(polls, PollFailed(r))
          /\ wresult' = r
          /\ wpc' = "done"
  /\ UNCHANGED <<timeout, kills>>
  /\ UNCHANGED <<snapvars, decvars>>

\* Mutant of CheckTimeout: the machine is killed whatever the action is.
CheckTimeout_KillsFirst ==
  /\ wpc = "check"
  /\ IF timeout.some /\ elapsed > timeout.max_dur
     THEN /\ kills' = kills + 1
          /\ wpc' = "done"
          /\ IF timeout.action = "Error"
             THEN wresult' = Err("Timeout")
             ELSE \/ wresult' = OkUnit
                  \/ \E e \in KillErrors : wresult' = Err(e)
     ELSE /\ wpc' = "sleep"
          /\ UNCHANGED <<kills, wresult>>
  /\ UNCHANGED <<timeout, elapsed, polls>>
  /\ UNCHANGED <<snapvars, decvars>>

\* `if let Some((ref max_dur, ref action)) = timeout { .. }`: once the
\* timeout has passed, return the error or kill the machine and break.
CheckTimeout ==
  /\ wpc = "check"
  /\ IF timeout.some /\ elapsed > timeout.max_dur
     THEN /\ wpc' = "done"
          /\ IF timeout.action = "Error"
             THEN /\ wresult' = Err("Timeout")
                  /\ UNCHANGED kills
             ELSE /\ kills' = kills + 1
                  /\ \/ wresult' = OkUnit
                     \/ \E e \in KillErrors : wresult' = Err(e)
     ELSE /\ wpc' = "sleep"
          /\ UNCHANGED <<kills, wresult>>
  /\ UNCHANGED <<timeout, elapsed, polls>>
  /\ UNCHANGED <<snapvars, decvars>>

\* thread::sleep(eleven_secs)
Sleep ==
  /\ wpc = "sleep"
  /\ elapsed' = elapsed + ElevenSecs
  /\ wpc' = "poll"
  /\ UNCHANGED <<timeout, polls, kills, wresult>>
  /\ UNCHANGED <<snapvars, decvars>>

WaitNext == Poll \/ CheckTimeout \/ Sleep

WaitSpec == WaitInit /\ [][WaitNext]_vars

(***************************************************************************)
(* Properties of the reconstruction.                                       *)
(***************************************************************************)
Range(f) == {f[i] : i \in DOMAIN f}

\* get_from_map returned Ok(Some(snaps))
Returned == result.tag = "OkSome"

\* The identifier that the flat map gives the branch path b
IdAt(b) == ParseUuid(map[UuidKey(b)]).u

\* p is a proper prefix of d: the path d lies below the path p
Below(d, p) == Len(p) < Len(d) /\ SubSeq(d, 1, Len(p)) = p

\* The identifiers in the children list of the node u of the tree map m
ChildrenOf(m, u) == Range(m[u].children)

\* The identifiers reached from the set S in one or more steps along the
\* children lists of m (n bounds the number of rounds).
RECURSIVE Descendants(_, _, _)
Descendants(m, S, n) ==
  LET next == UNION {ChildrenOf(m, u) : u \in S \cap DOMAIN m}
  IN  IF n = 0 THEN {} ELSE next \cup Descendants(m, next, n - 1)

\* C1: in every tree that get_from_map returns, root and current are keys of
\* the tree's map: get_root() and get_current() both return Some.
C1_RootAndCurrentAreKeys ==
  Returned => get_root(snaps).some /\ get_current(snaps).some

\* C2: in every tree that get_from_map returns, every identifier in a
\* children list is a key of the tree's map.
C2_NoDanglingChildren ==
  Returned =>
    \A u \in DOMAIN snaps.map : ChildrenOf(snaps.map, u) \subseteq DOMAIN snaps.map

\* A tree was returned for a flat map in which two branch paths carry the same
\* identifier, and some node has a child.
C2_Witness ==
  /\ Returned
  /\ \E b1, b2 \in Range(walked) : b1 # b2 /\ IdAt(b1) = IdAt(b2)
  /\ \E u \in DOMAIN snaps.map : snaps.map[u].children # <<>>

\* C3: in every tree that get_from_map returns, no node reaches itself by
\* following children lists.
C3_NoCycle ==
  Returned =>
    \A u \in DOMAIN snaps.map :
      u \notin Descendants(snaps.map, {u}, Cardinality(DOMAIN snaps.map))

\* A tree was returned for a flat map in which a branch path and a path below
\* it carry the same identifier.
C3_Witness ==
  /\ Returned
  /\ \E p, d \in Paths :
       /\ Below(d, p)
       /\ {StrOf(p), StrOf(d)} \subseteq Range(walked)
       /\ IdAt(StrOf(p)) = IdAt(StrOf(d))

\* C4: a flat map with neither SnapshotName nor SnapshotUUID makes
\* get_from_map return Ok(None), whatever other keys it holds.
C4_NoRootIsNone ==
  (pc = "done" /\ NameKey("") \notin DOMAIN map /\ UuidKey("") \notin DOMAIN map)
    => result.tag = "OkNone"

\* get_from_map returned on a flat map without the two root keys that holds
\* SnapshotUUID-1 and whose CurrentSnapshotUUID is missing or malformed.
C4_Witness ==
  /\ pc = "done"
  /\ NameKey("") \notin DOMAIN map /\ UuidKey("") \notin DOMAIN map
  /\ UuidKey("-1") \in DOMAIN map
  /\ CurrentKey \in DOMAIN map => ~ParseUuid(map[CurrentKey]).ok

\* The flat map holds SnapshotUUID{b}-1 and SnapshotUUID{b}-3 but not
\* SnapshotUUID{b}-2.
Gap(b) ==
  /\ UuidKey(Branch(b, 1)) \in DOMAIN map
  /\ UuidKey(Branch(b, 2)) \notin DOMAIN map
  /\ UuidKey(Branch(b, 3)) \in DOMAIN map

\* The branch paths at or below the third child of the branch path b
BehindGap(b) ==
  LET third == Append(CHOOSE p \in Paths : StrOf(p) = b, 3)
  IN  {StrOf(d) : d \in {d \in Paths : d = third \/ Below(d, third)}}

\* No branch path at or below the third child of b was queued or processed.
NeverDiscovered(b) == BehindGap(b) \cap (Range(q) \cup Range(walked)) = {}

\* No other processed branch path carries the identifier of b.
AloneWithId(b) == \A c \in Range(walked) : c # b => IdAt(c) # IdAt(b)

\* C5 as claimed: for a processed branch path P whose flat map holds children
\* 1 and 3 but not 2, P-3 and the paths below it are never queued or
\* processed, and the node of P in the returned tree has exactly the
\* identifier of P-1 as children.
C5_GapStopsEnumeration ==
  \A b \in Range(walked) :
    Gap(b) =>
      /\ NeverDiscovered(b)
      /\ Returned => snaps.map[IdAt(b)].children = <<IdAt(Branch(b, 1))>>

\* C5 as amended: the same, the children list being claimed only when no
\* other processed branch path carries the identifier of P.
C5_GapStopsEnumerationAlone ==
  \A b \in Range(walked) :
    Gap(b) =>
      /\ NeverDiscovered(b)
      /\ (Returned /\ AloneWithId(b)) =>
           snaps.map[IdAt(b)].children = <<IdAt(Branch(b, 1))>>

\* A tree was returned after processing a branch path with children 1 and 3
\* but not 2, whose identifier no other processed path carries.
C5_Witness ==
  /\ Returned
  /\ \E b \in Range(walked) : Gap(b) /\ AloneWithId(b)

\* The names of the nodes of a tree
NodeNames(s) == {s.map[u].name : u \in DOMAIN s.map}

\* The values of the keys of the flat map that start with SnapshotName
NameValues == {map[k] : k \in DOMAIN map \cap AllNameKeys}

\* Every SnapshotName key of the flat map is that of a processed branch path,
\* and no two processed branch paths carry the same identifier.
AllNamesWalked ==
  /\ DOMAIN map \cap AllNameKeys \subseteq {NameKey(b) : b \in Range(walked)}
  /\ \A b \in Range(walked) : AloneWithId(b)

\* C6 as claimed: the names of the nodes of a returned tree are, as a set,
\* the values of the SnapshotName* keys of the flat map.
C6_NamesRoundTrip == Returned => NodeNames(snaps) = NameValues

\* C6 as amended: every node name is the value of a SnapshotName* key; the
\* two sets are equal when every SnapshotName* key is that of a processed
\* branch path and no two processed paths carry the same identifier.
C6_NamesAreListed ==
  Returned =>
    /\ NodeNames(snaps) \subseteq NameValues
    /\ AllNamesWalked => NodeNames(snaps) = NameValues

\* A tree with two names was returned for a flat map whose SnapshotName* keys
\* are those of the processed paths, each with an identifier of its own.
C6_Witness ==
  /\ Returned
  /\ AllNamesWalked
  /\ Cardinality(NodeNames(snaps)) = 2

\* The keys that lead the walk to each branch path: SnapshotUUID of the
\* root, and of every elder sibling of the path and of each path above it
KeysTo ==
  [p \in Paths |->
     {UuidKey("")} \cup
       UNION {{UuidKey(StrOf(Append(SubSeq(p, 1, j - 1), i))) : i \in 1..p[j]} :
                j \in 1..Len(p)}]

\* The branch paths reached from the root by contiguous numbering
Reachable == {p \in Paths : KeysTo[p] \subseteq DOMAIN map}

\* The identifiers of P-1, ..., P-k in that order, R being the reachable
\* branch paths
ListedChildren(R, p) ==
  LET k == Cardinality({i \in 1..MaxNodes : Append(p, i) \in R})
  IN  [i \in 1..k |-> IdAt(StrOf(Append(p, i)))]

\* The root has its name and a well-formed identifier, and so has every
\* reachable branch path, each an identifier of its own, and
\* CurrentSnapshotUUID is one of these identifiers.
WellFormedListing ==
  /\ NameKey("") \in DOMAIN map
  /\ UuidKey("") \in DOMAIN map
  /\ ParseUuid(map[UuidKey("")]).ok
  /\ CurrentKey \in DOMAIN map
  /\ ParseUuid(map[CurrentKey]).ok
  /\ LET R == Reachable
     IN
      /\ R # {}
      /\ \A p \in R :
           /\ NameKey(StrOf(p)) \in DOMAIN map
           /\ ParseUuid(map[UuidKey(StrOf(p))]).ok
      /\ \A p1, p2 \in R : p1 # p2 => IdAt(StrOf(p1)) # IdAt(StrOf(p2))
      /\ ParseUuid(map[CurrentKey]).u \in {IdAt(StrOf(p)) : p \in R}

\* C7: a well-formed listing gives a tree with one node per reachable branch
\* path, the root and current identifiers of the listing, and each node's
\* name, and its children in numeric order.
C7_WellFormedListingGivesTree ==
  (pc = "done" /\ WellFormedListing) =>
    LET R == Reachable
    IN  /\ result.tag = "OkSome"
        /\ DOMAIN snaps.map = {IdAt(StrOf(p)) : p \in R}
        /\ Cardinality(DOMAIN snaps.map) = Cardinality(R)
        /\ snaps.root = IdAt("")
        /\ snaps.current = ParseUuid(map[CurrentKey]).u
        /\ \A p \in R :
             LET n == snaps.map[IdAt(StrOf(p))]
             IN  /\ n.uuid = IdAt(StrOf(p))
                 /\ n.name = map[NameKey(StrOf(p))]
                 /\ n.children = ListedChildren(R, p)

\* get_from_map returned on a well-formed listing whose root has two children.
C7_Witness ==
  /\ pc = "done"
  /\ WellFormedListing
  /\ <<2>> \in Reachable

\* C8: get_unique_by_name gives Error::Missing for no node of that name, the
\* node for exactly one, Error::Ambiguous for two or more.
C8_UniqueByNameOutcomes ==
  lookup.tag # "Idle" =>
    LET named == {u \in DOMAIN snaps.map : snaps.map[u].name = lookup.name}
    IN  /\ Cardinality(named) = 0 => lookup.tag = "Err" /\ lookup.err = "Missing"
        /\ Cardinality(named) = 1 => lookup.tag = "Ok" /\ lookup.uuid \in named
        /\ Cardinality(named) >= 2 => lookup.tag = "Err" /\ lookup.err = "Ambiguous"

\* C9: when a branch path taken from the queue has no SnapshotName key,
\* get_from_map returns the MissingData error.
C9_MissingNameIsMissingData ==
  \A b \in Range(walked) :
    NameKey(b) \notin DOMAIN map =>
      pc = "done" /\ result.tag = "Err" /\ result.err = "MissingData"

\* C10: with both root keys present and every SnapshotUUID* text well-formed,
\* a flat map without CurrentSnapshotUUID makes get_from_map return the
\* MissingData error.
C10_MissingCurrentIsMissingData ==
  ( /\ pc = "done"
    /\ NameKey("") \in DOMAIN map
    /\ UuidKey("") \in DOMAIN map
    /\ \A k \in DOMAIN map \cap AllUuidKeys : ParseUuid(map[k]).ok
    /\ CurrentKey \notin DOMAIN map )
    => result.tag = "Err" /\ result.err = "MissingData"

\* The flat map holds the key k with a text that is no identifier.
MalformedAt(k) == k \in DOMAIN map /\ ~ParseUuid(map[k]).ok

\* The root SnapshotUUID, the SnapshotUUID of a branch path reached from the
\* root by contiguous numbering, or CurrentSnapshotUUID is malformed.
SomeMalformed ==
  \/ MalformedAt(UuidKey(""))
  \/ MalformedAt(CurrentKey)
  \/ \E p \in Reachable : MalformedAt(UuidKey(StrOf(p)))

\* C11: on a flat map with both root keys in which the root SnapshotUUID, a
\* SnapshotUUID reached by contiguous child probing or CurrentSnapshotUUID
\* fails to parse, get_from_map returns Error::BadFormat (so never a tree).
C11_MalformedIsBadFormat ==
  ( /\ pc = "done"
    /\ NameKey("") \in DOMAIN map
    /\ UuidKey("") \in DOMAIN map
    /\ SomeMalformed )
    => result.tag = "Err" /\ result.err = "BadFormat"

\* C18: get_from_map never ends in the "No root UUID" or the "No current
\* UUID" panic of the final assembly: whenever the loop has drained the root
\* identifier is resolved, and the call never ends with either message.
C18_AssemblyNeverPanics ==
  /\ (pc = "loop" /\ q = <<>>) => root_uuid # NoUuid
  /\ result \notin {PanicWith("No root UUID"), PanicWith("No current UUID")}

\* The final assembly was reached and returned a tree after a walk of two
\* or more branch paths.
C18_Witness ==
  /\ pc = "done"
  /\ result.tag = "OkSome"
  /\ Len(walked) >= 2
  /\ snaps.root # NoUuid /\ snaps.current # NoUuid

\* The branch paths put on the work list so far, in the order they were
\* taken or are waiting: a path leaves q only by being taken, and every path
\* taken is recorded in walked.
Enqueued == walked \o q

\* The steps of one call of get_from_map
CallStep == GetRoot \/ LoopIter \/ Assemble

\* A bound on the number of steps the call has left: one for the root
\* detection, one for each key of the flat map not yet used by an iteration
\* of the loop, one for the assembly.
Measure ==
  IF pc = "root" THEN Cardinality(DOMAIN map) + 2
  ELSE IF pc = "loop" THEN Cardinality(DOMAIN map) - Len(walked) + 1
  ELSE 0

\* No branch path is put on the work list twice, every path put on it has
\* its SnapshotUUID key in the flat map, and the call can take a step as long
\* as it has not ended.
C19_QueueInv ==
  /\ Cardinality(Range(Enqueued)) = Len(Enqueued)
  /\ \A b \in Range(Enqueued) : UuidKey(b) \in DOMAIN map
  /\ Measure >= 0
  /\ pc # "done" => ENABLED CallStep

\* Every step of the call lowers the measure.
C19_StepLowersMeasure == pc # "done" => Measure' < Measure

\* C19: the work-list loop of get_from_map terminates on every flat map: a
\* branch path is enqueued at most once and only when its SnapshotUUID key is
\* in the map, and the call, which can always take a step until it has ended,
\* lowers with each step a natural number bounded by the size of the map, so
\* that it ends (the queue drained, or an earlier error or abort).
C19_WorkListTerminates == []C19_QueueInv /\ [][C19_StepLowersMeasure]_vars

\* The call ended with the queue drained after taking three branch paths
\* from it.
C19_Witness ==
  /\ pc = "done"
  /\ q = <<>>
  /\ Len(walked) >= 3

\* C12 as claimed: on every flat map, get_from_map (which takes the last
\* queued branch path first) returns what it would return taking the first
\* queued path first, and when that is a tree, the same tree: same map of
\* nodes, root and current.
C12_OrderIndependent ==
  pc = "done" =>
    get_from_map_front(map) = [result |-> result, snaps |-> snaps]

\* The call ended on a malformed identifier or on a missing key of a branch
\* path taken from the queue.
FailedInWalk(r) == r \in {Err("BadFormat"), Panic}

\* No two processed branch paths carry the same identifier.
DistinctIds == \A b \in Range(walked) : AloneWithId(b)

\* C12 as amended: taking the first queued path first, get_from_map returns
\* the same Ok(None), MissingData or Ok(Some) with the same root, current and
\* set of node identifiers, and the same map of nodes when no two processed
\* branch paths carry the same identifier; a call that ends on a malformed
\* identifier or a missing SnapshotName ends on one of the two in either
\* order.
C12_OrderIndependentDistinctIds ==
  pc = "done" =>
    LET f == get_from_map_front(map)
    IN  /\ IF FailedInWalk(result)
           THEN FailedInWalk(f.result)
           ELSE f.result = result
        /\ Returned =>
             /\ f.snaps.root = snaps.root
             /\ f.snaps.current = snaps.current
             /\ DOMAIN f.snaps.map = DOMAIN snaps.map
             /\ DistinctIds => f.snaps = snaps

\* A tree was returned for a flat map whose root has two children, the
\* second taken from the queue before the first, each processed branch path
\* with an identifier of its own.
C12_Witness ==
  /\ Returned
  /\ walked = <<"", "-2", "-1">>
  /\ DistinctIds

(***************************************************************************)
(* Properties of the decoding of the text into the flat map.               *)
(***************************************************************************)
NoQuote(t) == \A i \in DOMAIN t : t[i] # Quote

\* The line has no white space at its end.
Trimmed(line) == line = <<>> \/ line[Len(line)] # Space

\* The line that writes key and val in a convention: pre, mid and suf are
\* the quotes and the '=' around them.
Written(pre, key, mid, val, suf) == pre \o key \o mid \o val \o suf

\* The pairs that the line writes in a convention: the key is not empty and
\* holds no quote and no '=', the value holds no quote and, unless eqInVal,
\* no '='.
Readings(pre, mid, suf, line, eqInVal) ==
  {c \in {[key |-> SubSeq(line, Len(pre) + 1, j),
           val |-> SubSeq(line, k, Len(line) - Len(suf))] :
             j \in 1..Len(line), k \in 1..(Len(line) + 1)} :
     /\ c.key # <<>>
     /\ NotQuoteEq(c.key)
     /\ NoQuote(c.val)
     /\ eqInVal \/ NotQuoteEq(c.val)
     /\ Written(pre, c.key, mid, c.val, suf) = line}

\* The pair that a line is meant to give: that of key="value", else that of
\* "key"="value", else that of key=value (a set with one pair or none).
\* quotedEq tells whether a quoted value may hold '='.
Intended(line, quotedEq) ==
  LET c1 == Readings(<<>>, <<Eq, Quote>>, <<Quote>>, line, quotedEq)
      c2 == Readings(<<Quote>>, <<Quote, Eq, Quote>>, <<Quote>>, line, quotedEq)
      c3 == Readings(<<>>, <<Eq>>, <<>>, line, FALSE)
  IN  IF c1 # {} THEN c1 ELSE IF c2 # {} THEN c2 ELSE c3

\* Each trimmed line decoded so far that writes a pair in one of the three
\* conventions gave the captures of that pair, without a quote in either,
\* and the pair of the line decoded last is in the flat map.
DecodesIntended(quotedEq) ==
  \A i \in DOMAIN seen :
    Trimmed(seen[i].raw) =>
      \A c \in Intended(seen[i].raw, quotedEq) :
        /\ seen[i].cap = [matched |-> TRUE, key |-> c.key, val |-> c.val]
        /\ NoQuote(seen[i].cap.key) /\ NoQuote(seen[i].cap.val)
        /\ i = Len(seen) =>
             c.key \in DOMAIN vmmap /\ vmmap[c.key] = c.val

\* C13: the decoder gives, for every line written key="value", "key"="value"
\* or key=value (tried in that order, a quoted value holding any character
\* but a quote), exactly that key and that value, neither with a quote, and
\* inserts them.
C13_DecodesConventions == DecodesIntended(TRUE)

\* The line is one that the decoder accepts: it writes a pair in one of the
\* three conventions, the value holding neither a quote nor '='.
Accepted(line) == Intended(line, FALSE) # {}

\* The keys that the lines decoded so far gave
KeysSeen == {seen[i].cap.key : i \in {j \in DOMAIN seen : seen[j].cap.matched}}

\* The lines of the text, the empty ones left out
TextLines == buf_to_strlines(stdout, "Ignore")

\* C14: a trimmed line that matches none of the accepted conventions gives
\* no captures, and the flat map holds no key but those of the lines that
\* gave captures; decoding goes on after it: when the build ends every line
\* of the text was handed to the decoder, each accepted line after a line
\* that was not accepted has its key in the flat map, and the build returned
\* Ok(map).
C14_UnmatchedLineIsSkipped ==
  /\ \A i \in DOMAIN seen :
       (Trimmed(seen[i].raw) /\ ~Accepted(seen[i].raw)) => ~seen[i].cap.matched
  /\ DOMAIN vmmap = KeysSeen
  /\ (dpc = "done" /\ from_utf8_ok(stdout)) =>
       /\ dresult = OkMap
       /\ [i \in DOMAIN seen |-> seen[i].raw] = TextLines
       /\ \A i, j \in DOMAIN seen :
            (i < j /\ Trimmed(seen[i].raw) /\ ~Accepted(seen[i].raw)
               /\ Trimmed(seen[j].raw)) =>
              \A c \in Intended(seen[j].raw, FALSE) :
                /\ seen[j].cap = [matched |-> TRUE, key |-> c.key, val |-> c.val]
                /\ c.key \in DOMAIN vmmap

\* The build returned a map for a text in which a line without '=' comes
\* before an accepted line.
C14_Witness ==
  /\ dpc = "done"
  /\ dresult = OkMap
  /\ \E i, j \in DOMAIN seen :
       /\ i < j
       /\ Eq \notin Range(seen[i].raw)
       /\ Accepted(seen[j].raw)
       /\ seen[j].cap.key \in DOMAIN vmmap

\* The lines decoded so far that gave the key k, by position
LinesOf(k) == {j \in DOMAIN seen : seen[j].cap.matched /\ seen[j].cap.key = k}

\* The last of a set of positions
Last(S) == CHOOSE j \in S : \A i \in S : i <= j

\* C15: the flat map holds each key that a decoded line gave, once, with the
\* value of the last line that gave it, and no other key.
C15_LastLineWins ==
  /\ DOMAIN vmmap = KeysSeen
  /\ \A k \in KeysSeen : vmmap[k] = seen[Last(LinesOf(k))].cap.val

\* The build returned a map for a text in which two lines give the same key
\* with different values, and another line another key.
C15_Witness ==
  /\ dpc = "done"
  /\ dresult = OkMap
  /\ Cardinality(KeysSeen) >= 2
  /\ \E i, j \in DOMAIN seen :
       /\ i < j
       /\ seen[i].cap.matched /\ seen[j].cap.matched
       /\ seen[i].cap.key = seen[j].cap.key
       /\ seen[i].cap.val # seen[j].cap.val

\* C16: on a buffer that is not UTF-8 the build of the flat map ends by
\* returning an error value to its caller (no abort, no map).
C16_BadUtf8IsReturnedError ==
  (dpc = "done" /\ ~from_utf8_ok(stdout)) => dresult.tag = "Err"

(***************************************************************************)
(* Properties of wait_for_croak.                                           *)
(***************************************************************************)
\* The last poll found the machine in the state PowerOff.
SawPowerOff == polls # <<>> /\ polls[Len(polls)] = Polled("PowerOff")

\* The last poll failed.
LastPollFailed == polls # <<>> /\ polls[Len(polls)].tag # "Ok"

\* The timeout has passed.
TimeoutPassed == timeout.some /\ elapsed > timeout.max_dur

\* What the call has returned tells what it did: Ok(()) only with PowerOff
\* seen by the last poll, or with the timeout passed, the action Kill and one
\* kill issued; Err(Timeout) only with the timeout passed, the action Error,
\* no kill issued and PowerOff never seen; with no timeout the call has ended
\* only if the last poll saw PowerOff or failed, and no kill is ever issued.
C17_ReturnInv ==
  /\ wresult = OkUnit =>
       \/ SawPowerOff /\ kills = 0
       \/ TimeoutPassed /\ timeout.action = "Kill" /\ kills = 1 /\ ~SawPowerOff
  /\ wresult = Err("Timeout") =>
       /\ TimeoutPassed /\ timeout.action = "Error"
       /\ kills = 0
       /\ Polled("PowerOff") \notin Range(polls)
  /\ ~timeout.some =>
       /\ kills = 0
       /\ wpc = "done" => (SawPowerOff /\ wresult = OkUnit)
                            \/ (LastPollFailed /\ wresult.tag # "Ok")
  /\ (wpc # "done" /\ Len(polls) < MaxPolls) => ENABLED WaitNext

\* A poll that does not end the call is followed by the check of the
\* timeout; when that finds the timeout passed with the action Error the
\* call returns Err(Timeout) and issues no kill, with the action Kill it
\* issues the kill and returns; otherwise the call sleeps and polls again.
C17_Step ==
  /\ (wpc = "check" /\ TimeoutPassed /\ timeout.action = "Error") =>
       wresult' = Err("Timeout") /\ kills' = kills /\ wpc' = "done"
  /\ (wpc = "check" /\ TimeoutPassed /\ timeout.action = "Kill") =>
       kills' = kills + 1 /\ wpc' = "done"
  /\ (wpc = "check" /\ ~TimeoutPassed) => wpc' = "sleep" /\ wresult' = Pending
  /\ wpc = "sleep" => wpc' = "poll" /\ polls' = polls
  /\ (wpc = "poll" /\ wpc' # "done") => Len(polls') = Len(polls) + 1

\* C17: wait_for_croak polls until it returns: Ok(()) only after a poll saw
\* PowerOff or after the timeout passed with TimeoutAction::Kill and the
\* kill was issued; Err(Timeout), with no kill, when the timeout passed with
\* TimeoutAction::Error and the poll did not see PowerOff; with no timeout
\* it polls again and again until a poll sees PowerOff or fails.
C17_WaitForCroak == []C17_ReturnInv /\ [][C17_Step]_vars

\* The call returned Ok(()) after two or more polls, none of which saw
\* PowerOff, the timeout having passed with the action Kill and the kill
\* issued.
C17_Witness ==
  /\ wresult = OkUnit
  /\ timeout.action = "Kill"
  /\ kills = 1
  /\ Len(polls) >= 2

====
